---- MODULE Spec2Model ----
(***************************************************************************)
(* A model of stock_analyzer.py: safe_download, analyze_ticker,            *)
(* plot_all_vs_spy and main.                                               *)
(*                                                                         *)
(* Prices are natural numbers; a derived float (a return, a moving         *)
(* average) is the exact rational it stands for, kept in lowest terms, so  *)
(* floating-point rounding is not modelled.  Of a downloaded frame only    *)
(* the Close column is kept: High, Low, the volatility and the price range *)
(* are computed by the code but read by no decision of the program.        *)
(***************************************************************************)
EXTENDS Integers, Sequences, FiniteSets

VARIABLES
  pc,            \* position in main
  raw,           \* main: the input line, as its whitespace-separated tokens
  tickers,       \* main: tickers
  i,             \* main: number of tickers the for loop has consumed
  results,       \* main: results
  failed,        \* main: failed, a list of <<ticker, reason>>
  call,          \* while the loop runs: its last call of analyze_ticker, the ticker
                 \* and what yf.download gave it
  analyzed,      \* history: the tickers handed to analyze_ticker, in call order
  console,       \* what was printed, as [msg, ticker]
  df,            \* main: df, <<>> until pd.DataFrame(results) is built
  best_stock,    \* main: best_stock, <<>> until selected
  worst_stock,   \* main: worst_stock, <<>> until selected
  csv,           \* the rows written to stock_analysis_results.csv, <<>> until written
  plot_tickers,  \* plot_all_vs_spy: its argument tickers
  j,             \* plot_all_vs_spy: number of tickers its for loop has consumed
  chart,         \* the labels of the lines plotted on the figure, in order
  shown,         \* plt.show() was called
  raised         \* the exception that left main, "None" if none

vars == <<pc, raw, tickers, i, results, failed, call, analyzed, console, df,
          best_stock, worst_stock, csv, plot_tickers, j, chart, shown, raised>>

----------------------------------------------------------------------------
(* Bounds of the model *)

\* the longest input line, in tokens
MaxLine == 3
\* the largest close price
MaxPrice == 2
\* the longest frame yf.download returns in a run of main
MaxRows == 2
\* how far around the window sizes the lengths of the long frames range
Slack == 1

(* Program constants *)

\* rolling(window=50)
W50 == 50
\* rolling(window=200)
W200 == 200

----------------------------------------------------------------------------
(* Values *)

\* a cell of the Close column: NaN (no close price) or a price
NaN == <<>>
Cell(v) == <<v>>
notna(c) == c # NaN

Abs(x) == IF x < 0 THEN -x ELSE x

RECURSIVE Gcd(_, _)
Gcd(a, b) == IF b = 0 THEN a ELSE Gcd(b, a % b)

\* the float n/d (d > 0), in lowest terms
Float(n, d) ==
  LET g == Gcd(Abs(n), d)
  IN  [tag |-> "float", num |-> n \div g, den |-> d \div g]
\* float("nan")
FloatNaN == [tag |-> "nan", num |-> 0, den |-> 1]
\* Python's None in a field that otherwise holds a float
None == [tag |-> "None", num |-> 0, den |-> 1]

\* pd.notna on a float
pd_notna(x) == x.tag = "float"

\* x > y on floats that are not NaN
Gt(x, y) == x.num * y.den > y.num * x.den

\* the sum of the cells lo..hi of a column without NaN
RECURSIVE SumCells(_, _, _)
SumCells(s, lo, hi) ==
  IF lo > hi THEN 0
  ELSE IF lo = hi THEN s[lo][1]
  ELSE LET mid == (lo + hi) \div 2
       IN  SumCells(s, lo, mid) + SumCells(s, mid + 1, hi)

----------------------------------------------------------------------------
(* The input line *)

Tokens == {"aapl", "AAPL", "msft", "MSFT", "TSLA"}

\* str.upper on one token
upper(t) ==
  CASE t = "aapl" -> "AAPL"
    [] t = "msft" -> "MSFT"
    [] OTHER -> t

SeqsUpTo(S, n) == UNION {[1..k -> S] : k \in 0..n}

\* raw.strip() followed by split(): the tokens of the line
Lines == SeqsUpTo(Tokens, MaxLine)

Range(s) == {s[k] : k \in DOMAIN s}

\* raw.upper().split(): upper-casing the line upper-cases each token
upper_split(line) == [k \in DOMAIN line |-> upper(line[k])]

\* list(dict.fromkeys(xs)): each key once, in order of first occurrence
RECURSIVE fromkeys(_, _)
fromkeys(xs, acc) ==
  IF xs = <<>> THEN acc
  ELSE fromkeys(Tail(xs), IF Head(xs) \in Range(acc) THEN acc ELSE Append(acc, Head(xs)))

\* mutant: the tokens de-duplicated before they are upper-cased
Mut_parse_tickers(line) == upper_split(fromkeys(line, <<>>))

\* main: tickers = list(dict.fromkeys(raw.upper().split()))
parse_tickers(line) == fromkeys(upper_split(line), <<>>)

\* the lines of upper-case symbols without a repeat
TickerLines == {line \in Lines : parse_tickers(line) = line}

----------------------------------------------------------------------------
(* What yf.download gives *)

Cells == {NaN} \cup {Cell(v) : v \in 0..MaxPrice}

Frame(close) == [kind |-> "df", close |-> close]
\* yf.download raises
FetchRaises == [kind |-> "raise", close |-> <<>>]
\* yf.download returns None
FetchNone == [kind |-> "none", close |-> <<>>]

\* the downloads of a run of main
Downloads == {FetchRaises, FetchNone} \cup {Frame(c) : c \in SeqsUpTo(Cells, MaxRows)}

\* two downloads that analyze, to different returns, and one that does not
PlainDownloads == {Frame(<<Cell(1)>>), Frame(<<Cell(1), Cell(2)>>), Frame(<<NaN>>)}

\* the downloads of the chart, which keeps no number of a frame: one frame that
\* safe_download returns, and one download for each way it raises
ChartDownloads == {FetchRaises, FetchNone, Frame(<<>>), Frame(<<NaN>>), Frame(<<Cell(1)>>)}

Rep(c, n) == [k \in 1..n |-> c]

\* a long frame: h rows of a, then t-1 rows of b, then one row of c
LongFrame(h, t, a, b, c) ==
  Frame(Rep(a, h) \o (IF t = 0 THEN <<>> ELSE Rep(b, t - 1) \o <<c>>))

HeadLens == {0} \cup ((W200 - W50 - Slack)..(W200 - W50 + Slack))
TailLens == (0..(1 + Slack)) \cup ((W50 - Slack)..(W50 + Slack))

\* the downloads of a single call of analyze_ticker
LongDownloads ==
  {FetchRaises, FetchNone} \cup
  {LongFrame(h, t, a, b, c) : h \in HeadLens, t \in TailLens, a \in Cells, b \in Cells, c \in Cells}

----------------------------------------------------------------------------
(* safe_download *)

E_FETCH == "download failed"
E_NONE == "'NoneType' object has no attribute 'columns'"
E_NODATA == "No data returned (invalid ticker or no recent trading data)."
E_NOCLOSE == "Data returned but missing Close prices."
E_INDEX == "single positional indexer is out-of-bounds"
E_ZERO == "float division by zero"

Raise(e) == [exc |-> e, close |-> <<>>]
Return(close) == [exc |-> "None", close |-> close]

\* df.dropna(subset=["Close"])
dropna(close) == SelectSeq(close, notna)

\* mutant: no check that rows are left after dropna
Mut_safe_download(d) ==
  CASE d.kind = "raise" -> Raise(E_FETCH)
    [] d.kind = "none" -> Raise(E_NONE)
    [] OTHER ->
         IF d.close = <<>> THEN Raise(E_NODATA)
         ELSE Return(dropna(d.close))

\* safe_download on what yf.download gave: the cleaned Close column, or the exception
safe_download(d) ==
  CASE d.kind = "raise" -> Raise(E_FETCH)
    [] d.kind = "none" -> Raise(E_NONE)
    [] OTHER ->
         IF d.close = <<>> THEN Raise(E_NODATA)
         ELSE IF dropna(d.close) = <<>> THEN Raise(E_NOCLOSE)
         ELSE Return(dropna(d.close))

----------------------------------------------------------------------------
(* analyze_ticker *)

\* mutant: the division done on numpy floats, which gives inf or nan and raises nothing
Mut_return_rate(latest, start) ==
  IF start = 0 THEN [exc |-> "None", value |-> FloatNaN]
  ELSE [exc |-> "None", value |-> Float((latest - start) * 100, start)]

\* ((latest_price - start_price) / start_price) * 100 on Python floats: the division
\* raises ZeroDivisionError on a zero start_price
return_rate(latest, start) ==
  IF start = 0 THEN [exc |-> E_ZERO, value |-> FloatNaN]
  ELSE [exc |-> "None", value |-> Float((latest - start) * 100, start)]

\* mutant: len(df) > w
Mut_moving_average(close, w) ==
  IF Len(close) > w
  THEN Float(SumCells(close, Len(close) - w + 1, Len(close)), w)
  ELSE FloatNaN

\* float(df["Close"].rolling(window=w).mean().iloc[-1]) if len(df) >= w else float("nan")
moving_average(close, w) ==
  IF Len(close) >= w
  THEN Float(SumCells(close, Len(close) - w + 1, Len(close)), w)
  ELSE FloatNaN

\* mutant: latest_price >= ma_50
Mut_trend_of(latest_price, ma_50, ma_200) ==
  IF pd_notna(ma_50) /\ pd_notna(ma_200)
  THEN IF ~Gt(ma_50, latest_price) /\ Gt(ma_50, ma_200) THEN "BULLISH"
       ELSE IF ~Gt(ma_50, latest_price) THEN "NEUTRAL"
       ELSE "BEARISH"
  ELSE "INSUFFICIENT_DATA"

\* the trend label
trend_of(latest_price, ma_50, ma_200) ==
  IF pd_notna(ma_50) /\ pd_notna(ma_200)
  THEN IF Gt(latest_price, ma_50) /\ Gt(ma_50, ma_200) THEN "BULLISH"
       ELSE IF Gt(latest_price, ma_50) THEN "NEUTRAL"
       ELSE "BEARISH"
  ELSE IF pd_notna(ma_50) THEN "INSUFFICIENT_DATA"
  ELSE "INSUFFICIENT_DATA"

\* x if pd.notna(x) else None
or_None(x) == IF pd_notna(x) THEN x ELSE None

NoRecord ==
  [Ticker |-> "", Latest_Price |-> None, Return_Pct |-> None,
   MA_50D |-> None, MA_200D |-> None, Trend |-> ""]

Raised(e) == [exc |-> e, value |-> NoRecord]
Returned(v) == [exc |-> "None", value |-> v]

\* analyze_ticker(ticker) when yf.download gives d: the record, or the exception
analyze_ticker(ticker, d) ==
  LET dl == safe_download(d)
  IN  IF dl.exc # "None" THEN Raised(dl.exc)
      ELSE IF dl.close = <<>> THEN Raised(E_INDEX)
      ELSE
        LET close == dl.close
            latest == close[Len(close)][1]
            start == close[1][1]
            rate == return_rate(latest, start)
            ma_50 == moving_average(close, W50)
            ma_200 == moving_average(close, W200)
        IN  IF rate.exc # "None" THEN Raised(rate.exc)
            ELSE Returned(
                   [Ticker |-> ticker,
                    Latest_Price |-> Float(latest, 1),
                    Return_Pct |-> rate.value,
                    MA_50D |-> or_None(ma_50),
                    MA_200D |-> or_None(ma_200),
                    Trend |-> trend_of(Float(latest, 1), ma_50, ma_200)])

----------------------------------------------------------------------------
(* main *)

Msg(m, t) == [msg |-> m, ticker |-> t]

NoCall == [ticker |-> "", fetched |-> FetchNone]

Init ==
  /\ pc = "start"
  /\ raw = <<>>
  /\ tickers = <<>>
  /\ i = 0
  /\ results = <<>>
  /\ failed = <<>>
  /\ call = NoCall
  /\ analyzed = <<>>
  /\ console = <<>>
  /\ df = <<>>
  /\ best_stock = <<>>
  /\ worst_stock = <<>>
  /\ csv = <<>>
  /\ plot_tickers = <<>>
  /\ j = 0
  /\ chart = <<>>
  /\ shown = FALSE
  /\ raised = "None"

\* input(...).strip(); the early return on an empty line; tickers, results, failed
ReadInput(L) ==
  /\ pc = "start"
  /\ \E line \in L :
       /\ raw' = line
       /\ IF line = <<>>
          THEN /\ console' = Append(console, Msg("No tickers entered. Exiting.", ""))
               /\ pc' = "done"
               /\ UNCHANGED tickers
          ELSE /\ tickers' = parse_tickers(line)
               /\ pc' = "loop"
               /\ UNCHANGED console
  /\ UNCHANGED <<i, results, failed, call, analyzed, df, best_stock, worst_stock,
                 csv, plot_tickers, j, chart, shown, raised>>

\* mutant: the code after the loop indented into it, run after the first iteration
Mut_loop_exhausted(n, tks) == n >= 1

\* for ticker in tickers: the loop has no ticker left
loop_exhausted(n, tks) == n = Len(tks)

\* mutant: except ValueError as e
Mut_loop_catches(e) == e \in {E_NODATA, E_NOCLOSE}

\* except Exception as e: every exception analyze_ticker raises is caught
loop_catches(e) == TRUE

\* one iteration of the for loop: try: results.append(analyze_ticker(ticker)) except ...
LoopBody(F) ==
  /\ pc = "loop"
  /\ i < Len(tickers)
  /\ ~loop_exhausted(i, tickers)
  /\ \E d \in F :
       LET ticker == tickers[i + 1]
           r == analyze_ticker(ticker, d)
       IN  /\ call' = [ticker |-> ticker, fetched |-> d]
           /\ analyzed' = Append(analyzed, ticker)
           /\ i' = i + 1
           /\ IF r.exc = "None"
              THEN /\ results' = Append(results, r.value)
                   /\ UNCHANGED <<failed, console, pc, raised>>
              ELSE IF loop_catches(r.exc)
              THEN /\ failed' = Append(failed, <<ticker, r.exc>>)
                   /\ console' = Append(console, Msg("Skipped", ticker))
                   /\ UNCHANGED <<results, pc, raised>>
              ELSE /\ raised' = r.exc
                   /\ pc' = "done"
                   /\ UNCHANGED <<results, failed, console>>
  /\ UNCHANGED <<raw, tickers, df, best_stock, worst_stock, csv, plot_tickers, j,
                 chart, shown>>

\* mutant: no guard
Mut_no_results(res) == FALSE

\* if not results
no_results(res) == res = <<>>

\* after the loop: if not results: print("No valid tickers to analyze."); return
CheckResults ==
  /\ pc = "loop"
  /\ loop_exhausted(i, tickers)
  /\ IF no_results(results)
     THEN /\ console' = Append(console, Msg("No valid tickers to analyze.", ""))
          /\ pc' = "done"
     ELSE /\ pc' = "table"
          /\ UNCHANGED console
  /\ call' = NoCall
  /\ UNCHANGED <<raw, tickers, i, results, failed, analyzed, df, best_stock,
                 worst_stock, csv, plot_tickers, j, chart, shown, raised>>

E_KEY == "None of the display columns are in the [columns]"

\* df = pd.DataFrame(results); print(df[display_cols]...): a frame of no rows has no
\* columns, and selecting the display columns raises KeyError
BuildTable ==
  /\ pc = "table"
  /\ df' = <<results>>
  /\ IF results = <<>>
     THEN raised' = E_KEY /\ pc' = "done" /\ UNCHANGED console
     ELSE /\ console' = Append(console, Msg("COMPARISON TABLE", ""))
          /\ pc' = "rank"
          /\ UNCHANGED raised
  /\ UNCHANGED <<raw, tickers, i, results, failed, call, analyzed, best_stock,
                 worst_stock, csv, plot_tickers, j, chart, shown>>

\* Series.idxmax(): scan the rows in order, keep the first row holding the maximum
RECURSIVE idxmax_from(_, _, _)
idxmax_from(rows, k, at) ==
  IF k > Len(rows) THEN at
  ELSE idxmax_from(rows, k + 1,
                   IF Gt(rows[k].Return_Pct, rows[at].Return_Pct) THEN k ELSE at)

\* mutant: the last row holding the maximum
Mut_idxmax(rows) ==
  CHOOSE k \in DOMAIN rows :
    /\ \A m \in DOMAIN rows : ~Gt(rows[m].Return_Pct, rows[k].Return_Pct)
    /\ \A m \in (k + 1)..Len(rows) : Gt(rows[k].Return_Pct, rows[m].Return_Pct)

idxmax(rows) == idxmax_from(rows, 2, 1)

\* Series.idxmin(): scan the rows in order, keep the first row holding the minimum
RECURSIVE idxmin_from(_, _, _)
idxmin_from(rows, k, at) ==
  IF k > Len(rows) THEN at
  ELSE idxmin_from(rows, k + 1,
                   IF Gt(rows[at].Return_Pct, rows[k].Return_Pct) THEN k ELSE at)

idxmin(rows) == idxmin_from(rows, 2, 1)

\* best_stock = df.loc[df["1Y Return %"].idxmax()]; worst_stock likewise; print both
Rank ==
  /\ pc = "rank"
  /\ best_stock' = <<df[1][idxmax(df[1])]>>
  /\ worst_stock' = <<df[1][idxmin(df[1])]>>
  /\ console' = Append(console, Msg("BEST/WORST PERFORMER", ""))
  /\ pc' = "save"
  /\ UNCHANGED <<raw, tickers, i, results, failed, call, analyzed, df, csv,
                 plot_tickers, j, chart, shown, raised>>

\* df.to_csv(filename, index=False)
Save ==
  /\ pc = "save"
  /\ csv' = <<df[1]>>
  /\ console' = Append(console, Msg("Results saved", ""))
  /\ pc' = "report"
  /\ UNCHANGED <<raw, tickers, i, results, failed, call, analyzed, df, best_stock,
                 worst_stock, plot_tickers, j, chart, shown, raised>>

\* if failed: print the skipped tickers
ReportSkipped ==
  /\ pc = "report"
  /\ console' = IF failed # <<>> THEN Append(console, Msg("TICKERS SKIPPED", ""))
                ELSE console
  /\ pc' = "spy"
  /\ UNCHANGED <<raw, tickers, i, results, failed, call, analyzed, df, best_stock,
                 worst_stock, csv, plot_tickers, j, chart, shown, raised>>

----------------------------------------------------------------------------
(* plot_all_vs_spy *)

\* [r["Ticker"] for r in results]
chart_tickers(res) == [k \in DOMAIN res |-> res[k].Ticker]

\* mutant: SPY's download inside a try block too
Mut_plot_catches(label) == TRUE

\* the try block of plot_all_vs_spy holds the tickers' downloads, not SPY's
plot_catches(label) == label # "SPY"

\* the call, and spy = safe_download("SPY"); plt.figure; plt.plot(spy_norm)
PlotSpy(F) ==
  /\ pc = "spy"
  /\ plot_tickers' = chart_tickers(results)
  /\ \E d \in F :
       LET dl == safe_download(d)
       IN  IF dl.exc = "None"
           THEN /\ chart' = Append(chart, "SPY")
                /\ pc' = "plot"
                /\ UNCHANGED <<console, raised>>
           ELSE IF plot_catches("SPY")
           THEN /\ console' = Append(console, Msg("Could not plot", "SPY"))
                /\ pc' = "plot"
                /\ UNCHANGED <<chart, raised>>
           ELSE /\ raised' = dl.exc
                /\ pc' = "done"
                /\ UNCHANGED <<chart, console>>
  /\ UNCHANGED <<raw, tickers, i, results, failed, call, analyzed, df, best_stock,
                 worst_stock, csv, j, shown>>

\* one iteration of for ticker in tickers: try: download, plt.plot except: print
PlotTicker(F) ==
  /\ pc = "plot"
  /\ j < Len(plot_tickers)
  /\ \E d \in F :
       LET ticker == plot_tickers[j + 1]
           dl == safe_download(d)
       IN  IF dl.exc = "None"
           THEN /\ chart' = Append(chart, ticker)
                /\ j' = j + 1
                /\ UNCHANGED <<console, raised, pc>>
           ELSE IF plot_catches(ticker)
           THEN /\ console' = Append(console, Msg("Could not plot", ticker))
                /\ j' = j + 1
                /\ UNCHANGED <<chart, raised, pc>>
           ELSE /\ raised' = dl.exc
                /\ pc' = "done"
                /\ UNCHANGED <<chart, console, j>>
  /\ UNCHANGED <<raw, tickers, i, results, failed, call, analyzed, df, best_stock,
                 worst_stock, csv, plot_tickers, shown>>

\* plt.title ... plt.show()
Show ==
  /\ pc = "plot"
  /\ j = Len(plot_tickers)
  /\ shown' = TRUE
  /\ pc' = "done"
  /\ UNCHANGED <<raw, tickers, i, results, failed, call, analyzed, console, df,
                 best_stock, worst_stock, csv, plot_tickers, j, chart, raised>>

----------------------------------------------------------------------------
(* Specifications *)

Next ==
  \/ ReadInput(TickerLines)
  \/ LoopBody(Downloads)
  \/ CheckResults
  \/ BuildTable
  \/ Rank
  \/ Save
  \/ ReportSkipped
  \/ PlotSpy(ChartDownloads)
  \/ PlotTicker(ChartDownloads)
  \/ Show

\* a run of main on a line of distinct upper-case symbols
Spec == Init /\ [][Next]_vars

NextInput ==
  \/ ReadInput(Lines)
  \/ LoopBody(PlainDownloads)
  \/ CheckResults
  \/ BuildTable
  \/ Rank
  \/ Save
  \/ ReportSkipped
  \/ PlotSpy(PlainDownloads)
  \/ PlotTicker(PlainDownloads)
  \/ Show

\* a run of main on any line, each download one of three
SpecInput == Init /\ [][NextInput]_vars

\* main has read a line of one ticker and is about to analyze it
InitAnalyze ==
  /\ pc = "loop"
  /\ raw \in [1..1 -> Tokens]
  /\ tickers = parse_tickers(raw)
  /\ i = 0
  /\ results = <<>>
  /\ failed = <<>>
  /\ call = NoCall
  /\ analyzed = <<>>
  /\ console = <<>>
  /\ df = <<>>
  /\ best_stock = <<>>
  /\ worst_stock = <<>>
  /\ csv = <<>>
  /\ plot_tickers = <<>>
  /\ j = 0
  /\ chart = <<>>
  /\ shown = FALSE
  /\ raised = "None"

NextAnalyze == LoopBody(LongDownloads)

\* one call of analyze_ticker on a long frame
SpecAnalyze == InitAnalyze /\ [][NextAnalyze]_vars

----------------------------------------------------------------------------
(* Properties *)

TickersOf(rows) == {rows[k].Ticker : k \in DOMAIN rows}
FailedTickers == {failed[k][1] : k \in DOMAIN failed}
CountIn(seq, x) == Cardinality({k \in DOMAIN seq : seq[k] = x})
TickerColumn(rows) == [k \in DOMAIN rows |-> rows[k].Ticker]
FailedColumn == [k \in DOMAIN failed |-> failed[k][1]]

\* the for loop of main has ended, or main has returned from within it
LoopEnded == pc # "start" /\ raw # <<>> /\ (pc = "loop" => i = Len(tickers))

\* the outcome of the loop's last call, computed from what it downloaded
LastOutcome == analyze_ticker(call.ticker, call.fetched)

\* C1: the loop processes every requested symbol whatever fails: no exception leaves
\* the loop, each symbol consumed so far is exactly once in results or exactly once in
\* failed (with the reason of its failure) and never in both, the symbols not yet
\* consumed are in neither, and once the loop has ended every symbol is consumed.
C1_FailureIsolation ==
  /\ \A k \in DOMAIN tickers :
       LET t == tickers[k]
           r == CountIn(TickerColumn(results), t)
           f == CountIn(FailedColumn, t)
       IN  IF k <= Len(analyzed) THEN r + f = 1 ELSE r + f = 0
  /\ LoopEnded => analyzed = tickers
  /\ (pc = "loop" /\ i >= 1) =>
       /\ raised = "None"
       /\ IF LastOutcome.exc = "None"
          THEN results[Len(results)] = LastOutcome.value /\ call.ticker \notin FailedTickers
          ELSE /\ failed[Len(failed)] = <<call.ticker, LastOutcome.exc>>
               /\ call.ticker \notin TickersOf(results)
  /\ (raised # "None") => csv # <<>>

\* a failure of the first symbol, then a success of the last of three
C1_Witness ==
  /\ pc = "table"
  /\ Len(tickers) = 3
  /\ tickers[1] \in FailedTickers
  /\ tickers[2] \in FailedTickers
  /\ tickers[3] \in TickersOf(results)

\* the record of the single call of SpecAnalyze, when it returned one
Analyzed == pc = "loop" /\ i = 1 /\ results # <<>>
Rec == results[1]
Present(x) == x.tag = "float"

\* C2: the trend of a record is BULLISH iff both averages are present, latest > ma50
\* and ma50 > ma200; NEUTRAL iff both are present, latest > ma50 and not ma50 > ma200;
\* BEARISH iff both are present and latest <= ma50; INSUFFICIENT_DATA whenever ma200
\* is absent, with ma50 present or not.
C2_TrendLabel ==
  Analyzed =>
    LET latest == Rec.Latest_Price
        ma50 == Rec.MA_50D
        ma200 == Rec.MA_200D
        both == Present(ma50) /\ Present(ma200)
    IN  /\ Rec.Trend \in {"BULLISH", "NEUTRAL", "BEARISH", "INSUFFICIENT_DATA"}
        /\ (Rec.Trend = "BULLISH") <=> (both /\ Gt(latest, ma50) /\ Gt(ma50, ma200))
        /\ (Rec.Trend = "NEUTRAL") <=> (both /\ Gt(latest, ma50) /\ ~Gt(ma50, ma200))
        /\ (Rec.Trend = "BEARISH") <=> (both /\ ~Gt(latest, ma50))
        /\ ~Present(ma200) => Rec.Trend = "INSUFFICIENT_DATA"

\* a record of mixed signals: the latest price above ma50, ma50 not above ma200
C2_Witness ==
  /\ Analyzed
  /\ Rec.Trend = "NEUTRAL"
  /\ Present(Rec.MA_50D) /\ Present(Rec.MA_200D)
  /\ Gt(Rec.MA_200D, Rec.MA_50D)

\* the sum of the last w closes of a cleaned column, by counting each price
RECURSIVE SumByPrice(_, _, _)
SumByPrice(close, w, v) ==
  IF v = 0 THEN 0
  ELSE v * Cardinality({k \in (Len(close) - w + 1)..Len(close) : close[k] = Cell(v)})
       + SumByPrice(close, w, v - 1)

IsMeanOfLast(x, close, w) == x.num * w = SumByPrice(close, w, MaxPrice) * x.den

\* C3: in the record of a cleaned series of n rows, ma50 is present iff n >= 50 and
\* ma200 iff n >= 200; when present each is the mean of the last 50 (200) closes,
\* and when absent it is None, which is not the float zero.
C3_MovingAverages ==
  Analyzed =>
    LET close == dropna(call.fetched.close)
        n == Len(close)
    IN  /\ Present(Rec.MA_50D) <=> n >= 50
        /\ Present(Rec.MA_200D) <=> n >= 200
        /\ Present(Rec.MA_50D) => IsMeanOfLast(Rec.MA_50D, close, 50)
        /\ Present(Rec.MA_200D) => IsMeanOfLast(Rec.MA_200D, close, 200)
        /\ ~Present(Rec.MA_50D) => Rec.MA_50D = None /\ Rec.MA_50D # Float(0, 1)
        /\ ~Present(Rec.MA_200D) => Rec.MA_200D = None /\ Rec.MA_200D # Float(0, 1)

\* exactly 200 cleaned rows that are not all equal: both averages present and different
C3_Witness ==
  /\ Analyzed
  /\ Len(dropna(call.fetched.close)) = 200
  /\ Present(Rec.MA_50D) /\ Present(Rec.MA_200D)
  /\ Rec.MA_50D # Rec.MA_200D

IsFirstMax(rows, k) ==
  /\ \A m \in DOMAIN rows : ~Gt(rows[m].Return_Pct, rows[k].Return_Pct)
  /\ \A m \in 1..(k - 1) : Gt(rows[k].Return_Pct, rows[m].Return_Pct)

IsFirstMin(rows, k) ==
  /\ \A m \in DOMAIN rows : ~Gt(rows[k].Return_Pct, rows[m].Return_Pct)
  /\ \A m \in 1..(k - 1) : Gt(rows[m].Return_Pct, rows[k].Return_Pct)

\* C4: the best performer is a record of maximal return and the worst one of minimal
\* return, and among several records of that return each is the first in input order.
C4_BestWorst ==
  (best_stock # <<>> \/ worst_stock # <<>>) =>
    /\ results # <<>>
    /\ \E k \in DOMAIN results : best_stock = <<results[k]>> /\ IsFirstMax(results, k)
    /\ \E k \in DOMAIN results : worst_stock = <<results[k]>> /\ IsFirstMin(results, k)

\* three records, the last two sharing the maximum: the second is the best
C4_Witness ==
  /\ Len(results) = 3
  /\ Gt(results[2].Return_Pct, results[1].Return_Pct)
  /\ results[3].Return_Pct = results[2].Return_Pct
  /\ best_stock = <<results[2]>>
  /\ worst_stock = <<results[1]>>

\* nothing of the aggregation or of the chart exists
NothingProduced ==
  /\ df = <<>> /\ best_stock = <<>> /\ worst_stock = <<>> /\ csv = <<>>
  /\ plot_tickers = <<>> /\ chart = <<>> /\ ~shown

\* a run of main that has ended with every requested symbol failed
AllFailedDone == pc = "done" /\ tickers # <<>> /\ results = <<>>

\* C5, as claimed: when every requested symbol failed, the run ends with an error
\* raised to the caller, and no best/worst selection, export or chart is produced.
C5_Original == AllFailedDone => (raised # "None" /\ NothingProduced)

\* C5, amended: when every requested symbol failed, main attempts no aggregation: it
\* prints "No valid tickers to analyze." and returns without raising, and no table,
\* best/worst selection, export or chart is produced, at the end or on the way.
C5_NoValidTickers ==
  /\ AllFailedDone =>
       /\ raised = "None"
       /\ console[Len(console)] = Msg("No valid tickers to analyze.", "")
       /\ Len(failed) = Len(tickers)
  /\ (LoopEnded /\ results = <<>>) => (pc \in {"loop", "done"} /\ NothingProduced)

\* two symbols requested, both failed, main returned
C5_Witness ==
  /\ AllFailedDone
  /\ Len(tickers) = 2
  /\ Len(failed) = 2
  /\ failed[1][2] # failed[2][2]

\* C6: for a cleaned series of at least one row, the analysis fails by division by
\* zero iff the first close is zero; then the loop appends that symbol with the
\* division's reason to failed, appends no record, and goes on; otherwise (a zero
\* close elsewhere included) the analysis fails in no way and appends the symbol's record.
C6_ZeroStart ==
  [][(pc = "loop" /\ i' = i + 1) =>
       LET close == dropna(call'.fetched.close)
           t == call'.ticker
       IN  (call'.fetched.kind = "df" /\ close # <<>>) =>
             IF close[1] = Cell(0)
             THEN /\ failed' = Append(failed, <<t, E_ZERO>>)
                  /\ results' = results
                  /\ pc' = "loop" /\ raised' = "None"
             ELSE /\ failed' = failed
                  /\ Len(results') = Len(results) + 1
                  /\ results'[Len(results')].Ticker = t
                  /\ SubSeq(results', 1, Len(results)) = results
                  /\ pc' = "loop" /\ raised' = "None"]_vars

\* after a success, a series of zero start has failed; then a zero last close succeeds
C6_Witness ==
  /\ pc = "loop"
  /\ Len(results) = 2
  /\ failed = <<<<tickers[2], E_ZERO>>>>
  /\ call.fetched = Frame(<<Cell(1), Cell(0)>>)
  /\ results[2].Ticker = tickers[3]

\* the last defined close of a column, 0 if none
LastClose(col) ==
  LET ks == {k \in DOMAIN col : notna(col[k])}
  IN  IF ks = {} THEN 0 ELSE col[CHOOSE k \in ks : \A m \in ks : m <= k][1]

\* the first defined close of a column, 0 if none
FirstClose(col) ==
  LET ks == {k \in DOMAIN col : notna(col[k])}
  IN  IF ks = {} THEN 0 ELSE col[CHOOSE k \in ks : \A m \in ks : k <= m][1]

\* C7: a frame that is empty, or has no row with a close, fails in safe_download with
\* its error for that case; no analysis ever fails by reading a row of an empty series;
\* and a record's latest price and return are those of the last and first rows that
\* have a close.
C7_EmptySeries ==
  /\ \A k \in DOMAIN failed : failed[k][2] # E_INDEX
  /\ (pc = "loop" /\ i >= 1 /\ call.fetched.kind = "df") =>
       LET col == call.fetched.close
           defined == {k \in DOMAIN col : notna(col[k])}
       IN  /\ col = <<>> => failed[Len(failed)] = <<call.ticker, E_NODATA>>
           /\ (col # <<>> /\ defined = {}) =>
                failed[Len(failed)] = <<call.ticker, E_NOCLOSE>>
           /\ (defined = {}) => call.ticker \notin TickersOf(results)
           /\ (call.ticker \in TickersOf(results)) =>
                /\ defined # {}
                /\ results[Len(results)].Latest_Price = Float(LastClose(col), 1)
                /\ results[Len(results)].Return_Pct.num * FirstClose(col)
                     = (LastClose(col) - FirstClose(col)) * 100
                       * results[Len(results)].Return_Pct.den

\* a frame whose rows all lack a close has failed; one lacking the last close succeeds
C7_Witness ==
  /\ pc = "loop"
  /\ Len(tickers) = 2
  /\ failed = <<<<tickers[1], E_NOCLOSE>>>>
  /\ call.fetched = Frame(<<Cell(2), NaN>>)
  /\ results # <<>>
  /\ results[1].Latest_Price = Float(2, 1)

\* the aggregation has begun
Aggregating ==
  \/ pc \in {"table", "rank", "save", "report", "spy", "plot"}
  \/ df # <<>> \/ best_stock # <<>> \/ worst_stock # <<>> \/ csv # <<>>

\* C8: whenever the table, the best/worst selection or the export exists or is about
\* to be made, every requested symbol has been analyzed (is in results or in failed),
\* and the table and the export hold exactly the complete results.
C8_JoinPoint ==
  Aggregating =>
    /\ i = Len(tickers)
    /\ analyzed = tickers
    /\ Len(results) + Len(failed) = Len(tickers)
    /\ df # <<>> => df = <<results>>
    /\ csv # <<>> => csv = <<results>>
    /\ best_stock # <<>> => best_stock[1] \in Range(results)
    /\ worst_stock # <<>> => worst_stock[1] \in Range(results)

\* the export of two records of three symbols, the second of which failed
C8_Witness ==
  /\ pc = "report"
  /\ Len(tickers) = 3
  /\ csv = <<results>>
  /\ Len(results) = 2
  /\ FailedColumn = <<tickers[2]>>

\* the position of the first token of the line that upper-cases to sym
FirstPos(line, sym) ==
  CHOOSE k \in DOMAIN line :
    upper(line[k]) = sym /\ \A m \in 1..(k - 1) : upper(line[m]) # sym

\* C9: the tickers are the upper-cased tokens of the line, each once, in the order of
\* their first occurrences; they are handed to analyze_ticker in that order, each
\* once; the table and the export hold the symbols that did not fail, each once, in
\* that order.
C9_InputOrder ==
  (pc # "start" /\ raw # <<>>) =>
    /\ Range(tickers) = {upper(raw[k]) : k \in DOMAIN raw}
    /\ \A a, b \in DOMAIN tickers :
         a < b => FirstPos(raw, tickers[a]) < FirstPos(raw, tickers[b])
    /\ analyzed = SubSeq(tickers, 1, Len(analyzed))
    /\ LoopEnded => analyzed = tickers
    /\ TickerColumn(results) = SelectSeq(analyzed, LAMBDA t : t \notin FailedTickers)
    /\ df # <<>> => df = <<results>>
    /\ csv # <<>> => csv = <<results>>

\* a line with a mixed-case repeat after another symbol, exported in input order
\* with the higher return last
C9_Witness ==
  /\ raw = <<"msft", "aapl", "MSFT">>
  /\ tickers = <<"MSFT", "AAPL">>
  /\ csv # <<>>
  /\ TickerColumn(csv[1]) = <<"MSFT", "AAPL">>
  /\ Gt(csv[1][2].Return_Pct, csv[1][1].Return_Pct)

\* the console lines of the chart, as the tickers they name
NotPlotted == {console[k].ticker : k \in {m \in DOMAIN console : console[m].msg = "Could not plot"}}

\* the chart step has begun
Charting == pc = "plot" \/ plot_tickers # <<>> \/ chart # <<>> \/ shown

\* C10: the chart step begins only after the export and is given the exported symbols
\* in table order; a symbol that fails to download is reported and skipped, the
\* others are plotted in order and the chart is shown; a failure to download SPY is
\* not caught: it leaves main as an error, after the export, with nothing plotted.
C10_Chart ==
  /\ Charting =>
       /\ csv = <<results>>
       /\ plot_tickers = TickerColumn(csv[1])
  /\ pc = "plot" =>
       /\ raised = "None"
       /\ chart = <<"SPY">> \o
                  SelectSeq(SubSeq(plot_tickers, 1, j), LAMBDA t : t \notin NotPlotted)
       /\ NotPlotted \subseteq Range(SubSeq(plot_tickers, 1, j))
  /\ shown =>
       /\ pc = "done" /\ raised = "None" /\ j = Len(plot_tickers)
       /\ chart = <<"SPY">> \o SelectSeq(plot_tickers, LAMBDA t : t \notin NotPlotted)
  /\ raised # "None" =>
       /\ pc = "done" /\ csv = <<results>> /\ chart = <<>> /\ ~shown /\ j = 0
  /\ (pc = "done" /\ csv # <<>>) => (shown <=> raised = "None")

\* three symbols charted, the second of which failed to download
C10_Witness ==
  /\ shown
  /\ Len(plot_tickers) = 3
  /\ chart = <<"SPY", plot_tickers[1], plot_tickers[3]>>
  /\ NotPlotted = {plot_tickers[2]}

====
